---- MODULE Spec2Model ----
(***************************************************************************)
(* Model of oauth.go of go-shopify: the OAuth handshake (AuthorizeUrl,     *)
(* GetAccessToken) and the four HMAC verifiers (VerifyMessage through      *)
(* VerifyAuthorizationURL, VerifySignature, VerifyWebhookRequest,          *)
(* VerifyWebhookRequestVerbose).                                           *)
(*                                                                         *)
(* Go strings and []byte are sequences of byte values (0..255); the        *)
(* comments give the ASCII text.  encoding/hex, encoding/base64 and        *)
(* net/url's escaping are modelled byte by byte as the Go standard library *)
(* computes them.  HMAC-SHA256 is modelled by a keyed function with a      *)
(* 32-byte output that has no collision on the inputs of the model.        *)
(***************************************************************************)
EXTENDS Integers, Sequences, FiniteSets, TLC

\* ------------------------------------------------------------------ bounds

\* Longest webhook body drawn (bytes).
MaxBodyLen == 1
\* Most query parameters of a drawn URL, the signature parameter not counted.
MaxParams == 2

\* ------------------------------------------------------- program constants

\* sha256.Size, the length VerifyWebhookRequestVerbose requires.
DigestSize == 32

\* const shopifyChecksumHeader
shopifyChecksumHeader == "X-Shopify-Hmac-Sha256"

\* var accessTokenRelPath
accessTokenRelPath == "admin/oauth/access_token"

\* ------------------------------------------------------------ byte strings

Nil == "nil"

RECURSIVE Pow2(_)
Pow2(k) == IF k = 0 THEN 1 ELSE 2 * Pow2(k - 1)

\* The byte c with bit k inverted.
FlipBit(c, k) == IF (c \div Pow2(k)) % 2 = 1 THEN c - Pow2(k) ELSE c + Pow2(k)

\* s with the byte at position i replaced by b.
ReplaceAt(s, i, b) == [s EXCEPT ![i] = b]

RECURSIVE ConcatRange(_, _, _)
\* ss[lo] \o ... \o ss[hi], by halves.
ConcatRange(ss, lo, hi) ==
  IF lo > hi THEN <<>>
  ELSE IF lo = hi THEN ss[lo]
  ELSE ConcatRange(ss, lo, (lo + hi) \div 2) \o ConcatRange(ss, (lo + hi) \div 2 + 1, hi)

\* strings.Join(ss, ""): the concatenation of a sequence of byte strings.
Concat(ss) == ConcatRange(ss, 1, Len(ss))

RECURSIVE JoinWith(_, _)
\* strings.Join(ss, sep)
JoinWith(ss, sep) ==
  IF ss = <<>> THEN <<>>
  ELSE IF Len(ss) = 1 THEN Head(ss)
  ELSE Head(ss) \o sep \o JoinWith(Tail(ss), sep)

RECURSIVE StrLess(_, _)
\* Go's < on strings: bytewise lexicographic order.
StrLess(a, b) ==
  IF b = <<>> THEN FALSE
  ELSE IF a = <<>> THEN TRUE
  ELSE IF Head(a) # Head(b) THEN Head(a) < Head(b)
  ELSE StrLess(Tail(a), Tail(b))

RECURSIVE InsertSorted(_, _)
InsertSorted(x, ss) ==
  IF ss = <<>> THEN <<x>>
  ELSE IF StrLess(Head(ss), x) THEN <<Head(ss)>> \o InsertSorted(x, Tail(ss))
  ELSE <<x>> \o ss

RECURSIVE SortStrings(_)
\* sort.Strings(ss): ss in increasing order.
SortStrings(ss) ==
  IF ss = <<>> THEN <<>> ELSE InsertSorted(Head(ss), SortStrings(Tail(ss)))

\* -------------------------------------------------------------- crypto/hmac

HashModulus == 8388593

RECURSIVE Absorb(_, _)
Absorb(h, s) ==
  IF s = <<>> THEN h ELSE Absorb((h * 131 + Head(s) + 1) % HashModulus, Tail(s))

\* hmac.New(sha256.New, key); mac.Write(msg); mac.Sum(nil): a DigestSize-byte
\* digest determined by key and message.
HmacSha256(key, msg) ==
  LET h == Absorb((Absorb(7, key) * 131 + 257) % HashModulus, msg)
      part(i) == IF i % 3 = 1 THEN h % 256
                 ELSE IF i % 3 = 2 THEN (h \div 256) % 256
                 ELSE h \div 65536
  IN  [i \in 1..DigestSize |-> (part(i) * (2 * i - 1) + 89 * i) % 256]

\* hmac.Equal(a, b), that is subtle.ConstantTimeCompare(a, b) == 1: false when
\* the lengths differ, else whether every byte agrees.
HmacEqual(a, b) == Len(a) = Len(b) /\ \A i \in 1..Len(a) : a[i] = b[i]

\* ------------------------------------------------------------ encoding/hex

\* "0123456789abcdef"[n]
HexDigit(n) == IF n < 10 THEN 48 + n ELSE 97 + n - 10

\* hex.EncodeToString / hex.Encode: two lower-case digits per byte.
HexEncode(bs) ==
  [i \in 1..(2 * Len(bs)) |->
     IF i % 2 = 1 THEN HexDigit(bs[(i + 1) \div 2] \div 16)
     ELSE HexDigit(bs[i \div 2] % 16)]

\* The value of a hexadecimal digit of either case, 16 for any other byte.
FromHexChar(c) ==
  IF c >= 48 /\ c <= 57 THEN c - 48
  ELSE IF c >= 97 /\ c <= 102 THEN c - 97 + 10
  ELSE IF c >= 65 /\ c <= 70 THEN c - 65 + 10
  ELSE 16

\* hex.DecodeString(s): the bytes of s and a nil error, or, for malformed input,
\* the bytes decoded before the error together with the error.  The loop of
\* hex.Decode stops at the first pair of bytes that are not both hex digits;
\* an odd length is reported after the pairs, an invalid last byte first.
HexDecodeString(s) ==
  LET pairs   == Len(s) \div 2
      good(p) == FromHexChar(s[2 * p - 1]) < 16 /\ FromHexChar(s[2 * p]) < 16
      n       == IF \A p \in 1..pairs : good(p) THEN pairs
                 ELSE (CHOOSE p \in 1..pairs : ~good(p) /\ \A r \in 1..(p - 1) : good(r)) - 1
      bytes   == [p \in 1..n |-> FromHexChar(s[2 * p - 1]) * 16 + FromHexChar(s[2 * p])]
  IN  IF n < pairs THEN [bytes |-> bytes, err |-> "InvalidByteError"]
      ELSE IF Len(s) % 2 = 1
      THEN [bytes |-> bytes,
            err |-> IF FromHexChar(s[Len(s)]) > 15 THEN "InvalidByteError" ELSE "ErrLength"]
      ELSE [bytes |-> bytes, err |-> Nil]

\* --------------------------------------------------------- encoding/base64

\* base64.StdEncoding's alphabet: A-Z a-z 0-9 + /
B64Char(v) ==
  IF v < 26 THEN 65 + v
  ELSE IF v < 52 THEN 97 + v - 26
  ELSE IF v < 62 THEN 48 + v - 52
  ELSE IF v = 62 THEN 43 ELSE 47

\* The 6-bit value of an alphabet byte, 64 for any other byte.
B64Value(c) ==
  IF c >= 65 /\ c <= 90 THEN c - 65
  ELSE IF c >= 97 /\ c <= 122 THEN c - 97 + 26
  ELSE IF c >= 48 /\ c <= 57 THEN c - 48 + 52
  ELSE IF c = 43 THEN 62
  ELSE IF c = 47 THEN 63
  ELSE 64

\* '='
B64Pad == 61

RECURSIVE Base64Encode(_)
\* base64.StdEncoding.EncodeToString(bs)
Base64Encode(bs) ==
  IF bs = <<>> THEN <<>>
  ELSE IF Len(bs) = 1
  THEN <<B64Char(bs[1] \div 4), B64Char((bs[1] % 4) * 16), B64Pad, B64Pad>>
  ELSE IF Len(bs) = 2
  THEN <<B64Char(bs[1] \div 4),
         B64Char((bs[1] % 4) * 16 + bs[2] \div 16),
         B64Char((bs[2] % 16) * 4), B64Pad>>
  ELSE <<B64Char(bs[1] \div 4),
         B64Char((bs[1] % 4) * 16 + bs[2] \div 16),
         B64Char((bs[2] % 16) * 4 + bs[3] \div 64),
         B64Char(bs[3] % 64)>> \o Base64Encode(SubSeq(bs, 4, Len(bs)))

\* The decoder skips '\r' and '\n' wherever they stand.
B64Skipped(c) == c = 10 \/ c = 13

\* The bytes of a quantum of n 6-bit values (n in 2..4); bits past the last
\* whole byte are dropped unchecked (the encoding is not Strict()).
QuantumBytes(q) ==
  LET v(i) == IF i <= Len(q) THEN q[i] ELSE 0
      all  == <<v(1) * 4 + v(2) \div 16,
                (v(2) % 16) * 16 + v(3) \div 4,
                (v(3) % 4) * 64 + v(4)>>
  IN  SubSeq(all, 1, Len(q) - 1)

RECURSIVE B64DecodeQuanta(_, _)
\* s: the input without the skipped bytes; acc: the bytes decoded so far.  One
\* quantum of four bytes per step; '=' may only close the last quantum, after
\* two or three alphabet bytes.
B64DecodeQuanta(s, acc) ==
  LET n    == IF Len(s) < 4 THEN Len(s) ELSE 4
      ok(i) == i <= n /\ B64Value(s[i]) < 64
      q(k) == [i \in 1..k |-> B64Value(s[i])]
      bad  == [bytes |-> acc, err |-> "CorruptInputError"]
  IN  IF s = <<>> THEN [bytes |-> acc, err |-> Nil]
      ELSE IF ok(1) /\ ok(2) /\ ok(3) /\ ok(4)
      THEN B64DecodeQuanta(SubSeq(s, 5, Len(s)), acc \o QuantumBytes(q(4)))
      ELSE IF ok(1) /\ ok(2) /\ ok(3)
      THEN IF Len(s) = 4 /\ s[4] = B64Pad
           THEN [bytes |-> acc \o QuantumBytes(q(3)), err |-> Nil]
           ELSE bad
      ELSE IF ok(1) /\ ok(2)
      THEN IF Len(s) = 4 /\ s[3] = B64Pad /\ s[4] = B64Pad
           THEN [bytes |-> acc \o QuantumBytes(q(2)), err |-> Nil]
           ELSE bad
      ELSE bad

\* base64.StdEncoding.DecodeString(s)
Base64DecodeString(s) == B64DecodeQuanta(SelectSeq(s, LAMBDA c : ~B64Skipped(c)), <<>>)

\* ------------------------------------------------------------------ net/url

\* "0123456789ABCDEF"[n]
UpperHexDigit(n) == IF n < 10 THEN 48 + n ELSE 65 + n - 10

\* shouldEscape(c, encodeQueryComponent): everything but letters, digits and
\* - _ . ~ is escaped.
ShouldEscape(c) ==
  ~ \/ (c >= 97 /\ c <= 122) \/ (c >= 65 /\ c <= 90) \/ (c >= 48 /\ c <= 57)
    \/ c \in {45, 95, 46, 126}

\* url.QueryEscape(s): ' ' becomes '+', an escaped byte becomes %XX.
QueryEscape(s) ==
  Concat([i \in 1..Len(s) |->
            IF s[i] = 32 THEN <<43>>
            ELSE IF ShouldEscape(s[i])
            THEN <<37, UpperHexDigit(s[i] \div 16), UpperHexDigit(s[i] % 16)>>
            ELSE <<s[i]>>])

\* The first pass of unescape: every '%' is followed by two hex digits.
ValidEscapes(s) ==
  \A i \in 1..Len(s) :
    s[i] = 37 => /\ i + 2 <= Len(s)
                 /\ FromHexChar(s[i + 1]) < 16
                 /\ FromHexChar(s[i + 2]) < 16

\* The second pass, on a string with valid escapes: a '%' and its two digits
\* give one byte, '+' gives ' ', any other byte itself.
UnescapeBytes(s) ==
  Concat([i \in 1..Len(s) |->
            IF s[i] = 37 THEN <<FromHexChar(s[i + 1]) * 16 + FromHexChar(s[i + 2])>>
            ELSE IF (i > 1 /\ s[i - 1] = 37) \/ (i > 2 /\ s[i - 2] = 37) THEN <<>>
            ELSE IF s[i] = 43 THEN <<32>>
            ELSE <<s[i]>>])

\* url.QueryUnescape(s): %XX becomes the byte, '+' becomes ' '; "" and an
\* EscapeError when a '%' is not followed by two hex digits.
QueryUnescape(s) ==
  IF ValidEscapes(s) THEN [str |-> UnescapeBytes(s), err |-> Nil]
  ELSE [str |-> <<>>, err |-> "EscapeError"]

\* The position of the first byte c in s, 0 if there is none.
IndexByte(s, c) ==
  IF \E i \in 1..Len(s) : s[i] = c
  THEN CHOOSE i \in 1..Len(s) : s[i] = c /\ \A j \in 1..(i - 1) : s[j] # c
  ELSE 0

\* strings.Cut(s, sep) for a one-byte separator.
Cut(s, c) ==
  IF IndexByte(s, c) = 0 THEN [before |-> s, after |-> <<>>]
  ELSE [before |-> SubSeq(s, 1, IndexByte(s, c) - 1),
        after  |-> SubSeq(s, IndexByte(s, c) + 1, Len(s))]

\* m[key] = append(m[key], value) on a url.Values, a function from the keys
\* present to their values in order of arrival.
AddValue(m, key, value) ==
  IF key \in DOMAIN m THEN [m EXCEPT ![key] = Append(@, value)]
  ELSE [k \in DOMAIN m \cup {key} |-> IF k = key THEN <<value>> ELSE m[k]]

RECURSIVE ParseQueryInto(_, _)
\* url.ParseQuery's loop: pieces between '&'; an empty piece, one holding ';'
\* and one whose key or value does not unescape are left out.
ParseQueryInto(m, query) ==
  IF query = <<>> THEN m
  ELSE LET piece == Cut(query, 38)
           kv    == Cut(piece.before, 61)
           key   == QueryUnescape(kv.before)
           value == QueryUnescape(kv.after)
       IN  IF \/ piece.before = <<>>
              \/ IndexByte(piece.before, 59) # 0
              \/ key.err # Nil
              \/ value.err # Nil
           THEN ParseQueryInto(m, piece.after)
           ELSE ParseQueryInto(AddValue(m, key.str, value.str), piece.after)

\* u.Query(): url.ParseQuery(u.RawQuery) with the error dropped.
Query(u) == ParseQueryInto(<<>>, u.RawQuery)

\* v.Get(key): the first value of key, "" if there is none.
Get(v, key) == IF key \in DOMAIN v /\ v[key] # <<>> THEN v[key][1] ELSE <<>>

\* v.Del(key)
Del(v, key) == [k \in DOMAIN v \ {key} |-> v[k]]

\* The orders in which the elements of a finite set can be enumerated.
Orders(S) ==
  {o \in [1..Cardinality(S) -> S] : \A i, j \in 1..Cardinality(S) : o[i] = o[j] => i = j}

\* The keys of v in increasing order: sort.Strings of them, from any order.
SortedKeys(v) == SortStrings(CHOOSE o \in Orders(DOMAIN v) : TRUE)

\* v.Encode(): "k=v" for every value of every key, keys sorted, joined by '&'.
Encode(v) ==
  LET keys == SortedKeys(v)
      ofKey(k) == JoinWith([i \in 1..Len(v[k]) |->
                              QueryEscape(k) \o <<61>> \o QueryEscape(v[k][i])], <<38>>)
  IN  JoinWith(SelectSeq([i \in 1..Len(keys) |-> ofKey(keys[i])],
                         LAMBDA piece : piece # <<>>), <<38>>)

\* ---------------------------------------------------------------- state

VARIABLES
  boundary,      \* which operation of the package the application is using
  app,           \* the App value: ApiKey, ApiSecret, RedirectUrl, Scope, Client
  httpRequest,   \* the *http.Request handed to the webhook verifiers
  sent,          \* the body stream as it was delivered (history)
  retWebhook,    \* <<>> or <<r>>: the last return of VerifyWebhookRequest
  retVerbose,    \* <<>> or <<r>>: the last return of VerifyWebhookRequestVerbose
  handlerRead,   \* <<>> or <<r>>: what the handler behind the verifier last read
  tampered,      \* "none", or what a resent message had one byte changed in
  accepted,      \* the verifiers that had returned true before the change
  u,             \* the *url.URL handed to the query verifiers
  params,        \* the parameters the sender wrote into u, in order (history)
  retQuery,      \* <<>> or <<r>>: the last return of the query verifier
  retFirst,      \* <<>> or <<r>>: its first return, on the URL as first sent
  wire,          \* the requests the last GetAccessToken call put on the network
  retToken,      \* <<>> or <<r>>: the last return of GetAccessToken
  retAuthorize   \* <<>> or <<r>>: the last return of AuthorizeUrl

webhookVars == <<httpRequest, sent, retWebhook, retVerbose, handlerRead>>
queryVars == <<u, params, retQuery, retFirst>>
oauthVars == <<wire, retToken, retAuthorize>>
vars == <<boundary, app, tampered, accepted, webhookVars, queryVars, oauthVars>>

\* ------------------------------------------------------------ input sets

\* Secrets a message may have been signed with: "", "h", "k"
Secrets == {<<>>, <<104>>, <<107>>}

\* ApiSecret values of the application: "", "h"
AppSecrets == {<<>>, <<104>>}

\* Body bytes: '{' and '1'
BodyBytes == {123, 49}

RECURSIVE SeqsUpTo(_, _)
\* The sequences over S of length at most n.
SeqsUpTo(S, n) ==
  IF n = 0 THEN {<<>>}
  ELSE LET shorter == SeqsUpTo(S, n - 1)
       IN  shorter \cup {Append(s, e) : s \in {t \in shorter : Len(t) = n - 1}, e \in S}

Bodies == SeqsUpTo(BodyBytes, MaxBodyLen)

\* Bits of a byte.
Bits == 0..7

\* ------------------------------------------------------ io and net/http

\* An io.ReadCloser: the bytes still to be read, and whether reading them ends
\* in an error instead of io.EOF.
Stream(buf, err) == [buf |-> buf, err |-> err]

\* ioutil.ReadAll(r): everything up to EOF or the first error; the reader is
\* left drained (and still failing, if it failed).
ReadAll(r) ==
  [data |-> r.buf,
   err  |-> IF r.err THEN "read error" ELSE Nil,
   rest |-> Stream(<<>>, r.err)]

\* ioutil.NopCloser(bytes.NewBuffer(requestBody))
NopCloserNewBuffer(requestBody) == Stream(requestBody, FALSE)

\* httpRequest.Header.Get(shopifyChecksumHeader): the first value, "" if none.
\* Header holds the values of that one header.
HeaderGet(req) == IF req.Header = <<>> THEN <<>> ELSE req.Header[1]

\* ---------------------------------------------------- webhook verifiers

\* A verifier that compares the header with the hex text of the digest.
VerifyWebhookRequestHexDigest(a, req) ==
  LET read == ReadAll(req.Body)
  IN  [ok   |-> HmacEqual(HeaderGet(req), HexEncode(HmacSha256(a.ApiSecret, read.data))),
       Body |-> NopCloserNewBuffer(read.data)]

\* VerifyWebhookRequest: what it returns and the Body it leaves in the request.
VerifyWebhookRequest(a, req) ==
  LET shopifySha256 == HeaderGet(req)
      actualMac     == shopifySha256
      read          == ReadAll(req.Body)
      requestBody   == read.data
      macSum        == HmacSha256(a.ApiSecret, requestBody)
      expectedMac   == Base64Encode(macSum)
  IN  [ok   |-> HmacEqual(actualMac, expectedMac),
       Body |-> NopCloserNewBuffer(requestBody)]

\* A verbose verifier that reads the body before it looks at the header.
VerifyWebhookRequestVerboseBodyFirst(a, req) ==
  LET shopifySha256 == HeaderGet(req)
      decoded       == Base64DecodeString(shopifySha256)
      read          == ReadAll(req.Body)
      HMACSame      == HmacEqual(decoded.bytes, HmacSha256(a.ApiSecret, read.data))
      restored      == NopCloserNewBuffer(read.data)
  IN  IF a.ApiSecret = <<>>
      THEN [ok |-> FALSE, err |-> "ApiSecret is empty", Body |-> req.Body]
      ELSE IF read.err # Nil
      THEN [ok |-> FALSE, err |-> read.err, Body |-> read.rest]
      ELSE IF Len(read.data) = 0
      THEN [ok |-> FALSE, err |-> "request body is empty", Body |-> restored]
      ELSE IF shopifySha256 = <<>>
      THEN [ok |-> FALSE, err |-> "header not set", Body |-> restored]
      ELSE IF decoded.err # Nil
      THEN [ok |-> FALSE, err |-> decoded.err, Body |-> restored]
      ELSE IF Len(decoded.bytes) # DigestSize
      THEN [ok |-> FALSE, err |-> "received HMAC is not of length 32", Body |-> restored]
      ELSE IF ~HMACSame
      THEN [ok |-> FALSE, err |-> "expected hash does not equal", Body |-> restored]
      ELSE [ok |-> TRUE, err |-> Nil, Body |-> restored]

\* VerifyWebhookRequestVerbose: what it returns and the Body it leaves.
VerifyWebhookRequestVerbose(a, req) ==
  LET shopifySha256 == HeaderGet(req)
      decoded       == Base64DecodeString(shopifySha256)
      read          == ReadAll(req.Body)
      requestBody   == read.data
      computedHMAC  == HmacSha256(a.ApiSecret, requestBody)
      HMACSame      == HmacEqual(decoded.bytes, computedHMAC)
  IN  IF a.ApiSecret = <<>>
      THEN [ok |-> FALSE, err |-> "ApiSecret is empty", Body |-> req.Body]
      ELSE IF shopifySha256 = <<>>
      THEN [ok |-> FALSE, err |-> "header not set", Body |-> req.Body]
      ELSE IF decoded.err # Nil
      THEN [ok |-> FALSE, err |-> decoded.err, Body |-> req.Body]
      ELSE IF Len(decoded.bytes) # DigestSize
      THEN [ok |-> FALSE, err |-> "received HMAC is not of length 32", Body |-> req.Body]
      ELSE IF read.err # Nil
      THEN [ok |-> FALSE, err |-> read.err, Body |-> read.rest]
      ELSE IF Len(requestBody) = 0
      THEN [ok |-> FALSE, err |-> "request body is empty",
            Body |-> NopCloserNewBuffer(requestBody)]
      ELSE IF ~HMACSame
      THEN [ok |-> HMACSame, err |-> "expected hash does not equal",
            Body |-> NopCloserNewBuffer(requestBody)]
      ELSE [ok |-> HMACSame, err |-> Nil, Body |-> NopCloserNewBuffer(requestBody)]

\* ------------------------------------------------------- webhook boundary

\* The header Shopify computes for a body under a secret.
WebhookSignature(secret, body) == Base64Encode(HmacSha256(secret, body))

\* Header values a delivery of `body` may carry: none, an empty one, a
\* signature under each secret, the encoding of a 31-byte and of a 33-byte
\* value, and a signature with its padding cut off.
HeaderInputs(body) ==
  {<<>>, << <<>> >>}
  \cup {<<WebhookSignature(s, body)>> : s \in Secrets}
  \cup {<<Base64Encode(SubSeq(HmacSha256(s, body), 1, DigestSize - 1))>> : s \in Secrets}
  \cup {<<Base64Encode(Append(HmacSha256(s, body), 0))>> : s \in Secrets}
  \cup {<<SubSeq(WebhookSignature(s, body), 1, Len(WebhookSignature(s, body)) - 1)>> : s \in Secrets}

NoApp == [ApiKey |-> <<>>, ApiSecret |-> <<>>, RedirectUrl |-> <<>>, Scope |-> <<>>,
          Client |-> <<>>]

NoRequest == [Header |-> <<>>, Body |-> Stream(<<>>, FALSE)]

IdleWebhook ==
  /\ httpRequest = NoRequest
  /\ sent = Stream(<<>>, FALSE)
  /\ retWebhook = <<>>
  /\ retVerbose = <<>>
  /\ handlerRead = <<>>

IdleQuery ==
  /\ u = [RawQuery |-> <<>>]
  /\ params = <<>>
  /\ retQuery = <<>>
  /\ retFirst = <<>>

IdleOAuth ==
  /\ wire = <<>>
  /\ retToken = <<>>
  /\ retAuthorize = <<>>

InitWebhook ==
  /\ boundary = "webhook"
  /\ IdleQuery
  /\ IdleOAuth
  /\ \E secret \in AppSecrets : app = [NoApp EXCEPT !.ApiSecret = secret]
  /\ \E body \in Bodies, err \in BOOLEAN, header \in UNION {HeaderInputs(b) : b \in Bodies} :
       /\ header \in HeaderInputs(body)
       /\ httpRequest = [Header |-> header, Body |-> Stream(body, err)]
       /\ sent = Stream(body, err)
  /\ retWebhook = <<>>
  /\ retVerbose = <<>>
  /\ handlerRead = <<>>
  /\ tampered = "none"
  /\ accepted = {}

\* The application calls app.VerifyWebhookRequest(httpRequest).
CallVerifyWebhookRequest ==
  /\ boundary = "webhook"
  /\ LET r == VerifyWebhookRequest(app, httpRequest)
     IN  /\ retWebhook' = <<[ok |-> r.ok, entry |-> httpRequest]>>
         /\ httpRequest' = [httpRequest EXCEPT !.Body = r.Body]
  /\ UNCHANGED <<boundary, app, sent, retVerbose, handlerRead, tampered, accepted, queryVars, oauthVars>>

\* The application calls app.VerifyWebhookRequestVerbose(httpRequest).
CallVerifyWebhookRequestVerbose ==
  /\ boundary = "webhook"
  /\ LET r == VerifyWebhookRequestVerbose(app, httpRequest)
     IN  /\ retVerbose' = <<[ok |-> r.ok, err |-> r.err, entry |-> httpRequest]>>
         /\ httpRequest' = [httpRequest EXCEPT !.Body = r.Body]
  /\ UNCHANGED <<boundary, app, sent, retWebhook, handlerRead, tampered, accepted, queryVars, oauthVars>>

\* The handler invoked after a verifier reads the request body to its end.
HandlerReadBody ==
  /\ boundary = "webhook"
  /\ tampered = "none"
  /\ retWebhook # <<>> \/ retVerbose # <<>>
  /\ LET r == ReadAll(httpRequest.Body)
     IN  /\ handlerRead' = <<[data |-> r.data, err |-> r.err]>>
         /\ httpRequest' = [httpRequest EXCEPT !.Body = r.rest]
  /\ UNCHANGED <<boundary, app, sent, retWebhook, retVerbose, tampered, accepted, queryVars, oauthVars>>

\* The verifiers whose last return on the request was true.
AcceptedNow ==
  {v \in {"VerifyWebhookRequest"} : retWebhook # <<>> /\ retWebhook[1].ok}
  \cup {v \in {"VerifyWebhookRequestVerbose"} : retVerbose # <<>> /\ retVerbose[1].ok}

\* A delivery both verifiers were run on, and one accepted, is sent again with one bit of one byte of
\* its signature header inverted.
ResendWithHeaderByteChanged ==
  /\ boundary = "webhook"
  /\ tampered = "none"
  /\ handlerRead = <<>>
  /\ retWebhook # <<>> /\ retVerbose # <<>>
  /\ AcceptedNow # {}
  /\ \E i \in 1..Len(HeaderGet(httpRequest)), k \in Bits :
       httpRequest' =
         [Header |-> <<ReplaceAt(HeaderGet(httpRequest), i,
                                 FlipBit(HeaderGet(httpRequest)[i], k))>>,
          Body   |-> sent]
  /\ tampered' = "signature"
  /\ accepted' = AcceptedNow
  /\ retWebhook' = <<>>
  /\ retVerbose' = <<>>
  /\ UNCHANGED <<boundary, app, sent, handlerRead, queryVars, oauthVars>>

\* The same with one byte of the body changed instead.
ResendWithBodyByteChanged ==
  /\ boundary = "webhook"
  /\ tampered = "none"
  /\ handlerRead = <<>>
  /\ retWebhook # <<>> /\ retVerbose # <<>>
  /\ AcceptedNow # {}
  /\ \E i \in 1..Len(sent.buf), k \in Bits :
       /\ sent' = Stream(ReplaceAt(sent.buf, i, FlipBit(sent.buf[i], k)), sent.err)
       /\ httpRequest' = [httpRequest EXCEPT !.Body = sent']
  /\ tampered' = "message"
  /\ accepted' = AcceptedNow
  /\ retWebhook' = <<>>
  /\ retVerbose' = <<>>
  /\ UNCHANGED <<boundary, app, handlerRead, queryVars, oauthVars>>

NextWebhook ==
  \/ CallVerifyWebhookRequest
  \/ CallVerifyWebhookRequestVerbose
  \/ HandlerReadBody
  \/ ResendWithHeaderByteChanged
  \/ ResendWithBodyByteChanged

SpecWebhook == InitWebhook /\ [][NextWebhook]_vars

\* ------------------------------------------------------- query verifiers

\* "hmac"
KeyHmac == <<104, 109, 97, 99>>

\* "signature"
KeySignature == <<115, 105, 103, 110, 97, 116, 117, 114, 101>>

\* VerifyMessage(message, messageMAC)
VerifyMessage(a, message, messageMAC) ==
  LET expectedMAC == HmacSha256(a.ApiSecret, message)
      actualMac   == HexDecodeString(messageMAC).bytes
  IN  HmacEqual(actualMac, expectedMAC)

\* VerifyAuthorizationURL(u): its two results, with the message and the MAC it
\* hands to VerifyMessage.
VerifyAuthorizationURL(a, url) ==
  LET q          == Query(url)
      messageMAC == Get(q, KeyHmac)
      rest       == Del(Del(q, KeyHmac), KeySignature)
      unescaped  == QueryUnescape(Encode(rest))
      message    == unescaped.str
  IN  [ok      |-> VerifyMessage(a, message, messageMAC),
       err     |-> unescaped.err,
       message |-> message,
       mac     |-> messageMAC]

\* hmacSHA256(key, body, expected)
hmacSHA256(key, body, expected) ==
  LET result == HmacSha256(key, body)
      dst    == HexEncode(result)
  IN  HmacEqual(dst, expected)

\* A proxy verifier that signs the pairs in the order the map yields them.
VerifySignatureUnsorted(a, url, order) ==
  LET val    == Query(url)
      rest   == Del(val, KeySignature)
      joined == Concat([i \in 1..Len(order) |->
                          order[i] \o <<61>> \o JoinWith(rest[order[i]], <<44>>)])
  IN  [ok      |-> hmacSHA256(a.ApiSecret, joined, Get(val, KeySignature)),
       err     |-> Nil,
       message |-> joined,
       mac     |-> Get(val, KeySignature)]

\* VerifySignature(u), with `order` the order in which the range over the map
\* val happens to visit its keys; its result, with the string it signs.
VerifySignature(a, url, order) ==
  LET val    == Query(url)
      sig    == Get(val, KeySignature)
      rest   == Del(val, KeySignature)
      keys   == [i \in 1..Len(order) |->
                   order[i] \o <<61>> \o JoinWith(rest[order[i]], <<44>>)]
      joined == Concat(SortStrings(keys))
  IN  [ok      |-> hmacSHA256(a.ApiSecret, joined, sig),
       err     |-> Nil,
       message |-> joined,
       mac     |-> sig]

\* --------------------------------------------------------- query boundary

\* Most parameters, the signature not counted, of a URL that is sent again
\* with a byte changed.
MaxTamperedParams == 1

\* Parameter names "a", "b" and values "1", "2".
ParamKeys == {<<97>>, <<98>>}
ParamValues == {<<49>>, <<50>>}

ParamLists == SeqsUpTo(ParamKeys \X ParamValues, MaxParams)

RECURSIVE ValuesOf(_)
\* The url.Values of a parameter list.
ValuesOf(ps) ==
  IF ps = <<>> THEN <<>>
  ELSE AddValue(ValuesOf(SubSeq(ps, 1, Len(ps) - 1)), ps[Len(ps)][1], ps[Len(ps)][2])

\* The query string a sender writes for a parameter list, in the list's order.
WriteQuery(ps) ==
  JoinWith([i \in 1..Len(ps) |-> QueryEscape(ps[i][1]) \o <<61>> \o QueryEscape(ps[i][2])],
           <<38>>)

\* What Shopify signs of a callback's parameters, and of a proxy request's.
ShopifyCallbackMessage(ps) == QueryUnescape(Encode(ValuesOf(ps))).str
ShopifyProxyMessage(ps) ==
  LET v    == ValuesOf(ps)
      keys == SortedKeys(v)
  IN  Concat(SortStrings([i \in 1..Len(keys) |->
                            keys[i] \o <<61>> \o JoinWith(v[keys[i]], <<44>>)]))

\* The hex signature of a message under a secret.
HexSignature(secret, message) == HexEncode(HmacSha256(secret, message))

\* Signature texts a URL may carry for a signed message: the signature under
\* each secret, and the one under the app's secret followed by "0", followed
\* by "zz", and with its last digit cut off.
SignatureInputs(a, message) ==
  {HexSignature(s, message) : s \in Secrets}
  \cup {HexSignature(a.ApiSecret, message) \o <<48>>,
        HexSignature(a.ApiSecret, message) \o <<122, 122>>,
        SubSeq(HexSignature(a.ApiSecret, message), 1, 2 * DigestSize - 1)}

InitQuery(b, key) ==
  /\ boundary = b
  /\ IdleWebhook
  /\ IdleOAuth
  /\ \E secret \in AppSecrets : app = [NoApp EXCEPT !.ApiSecret = secret]
  /\ \E ps \in ParamLists :
       \/ params = ps
       \/ \E sig \in SignatureInputs(app, IF b = "callback" THEN ShopifyCallbackMessage(ps)
                                          ELSE ShopifyProxyMessage(ps)) :
            params = Append(ps, <<key, sig>>)
  /\ u = [RawQuery |-> WriteQuery(params)]
  /\ retQuery = <<>>
  /\ retFirst = <<>>
  /\ tampered = "none"
  /\ accepted = {}

InitCallback == InitQuery("callback", KeyHmac)
InitProxy == InitQuery("proxy", KeySignature)

\* The return of a query verifier, recorded with the parameters it was given.
Recorded(fn, r) ==
  [fn |-> fn, ok |-> r.ok, err |-> r.err, message |-> r.message, mac |-> r.mac,
   params |-> params]

\* The application calls app.VerifyAuthorizationURL(u) on a callback.
CallVerifyAuthorizationURL ==
  /\ boundary = "callback"
  /\ LET r == Recorded("VerifyAuthorizationURL", VerifyAuthorizationURL(app, u))
     IN  /\ retQuery' = <<r>>
         /\ retFirst' = IF retFirst = <<>> THEN <<r>> ELSE retFirst
  /\ UNCHANGED <<boundary, app, tampered, accepted, u, params, webhookVars, oauthVars>>

\* The application calls app.VerifySignature(u) on a proxy request.
CallVerifySignature ==
  /\ boundary = "proxy"
  /\ \E order \in Orders(DOMAIN Del(Query(u), KeySignature)) :
       LET r == Recorded("VerifySignature", VerifySignature(app, u, order))
       IN  /\ retQuery' = <<r>>
           /\ retFirst' = IF retFirst = <<>> THEN <<r>> ELSE retFirst
  /\ UNCHANGED <<boundary, app, tampered, accepted, u, params, webhookVars, oauthVars>>

\* The URL that was verified as first sent arrives again with two neighbouring
\* parameters in the other order, any number of times before it is verified
\* again.
ReorderQuery ==
  /\ boundary \in {"callback", "proxy"}
  /\ tampered = "none"
  /\ retFirst # <<>>
  /\ retQuery = retFirst
  /\ \E i \in 1..(Len(params) - 1) :
       params' = [params EXCEPT ![i] = params[i + 1], ![i + 1] = params[i]]
  /\ u' = [RawQuery |-> WriteQuery(params')]
  /\ UNCHANGED <<boundary, app, tampered, accepted, retQuery, retFirst, webhookVars, oauthVars>>

\* The key of the signature parameter at this boundary.
SignatureKey == IF boundary = "callback" THEN KeyHmac ELSE KeySignature

\* A URL, as first sent, that the verifier accepted on a well-formed hex
\* signature may be sent again with one byte changed.
MayResendQuery ==
  /\ boundary \in {"callback", "proxy"}
  /\ tampered = "none"
  /\ retQuery # <<>>
  /\ retQuery[1].ok
  /\ retQuery[1].params = params
  /\ retFirst = retQuery
  /\ HexDecodeString(retQuery[1].mac).err = Nil
  /\ Len(params) <= MaxTamperedParams + 1

\* It is sent again with one bit of one byte of the signature text inverted.
ResendWithSignatureByteChanged ==
  /\ MayResendQuery
  /\ \E p \in 1..Len(params), i \in 1..(2 * DigestSize), k \in Bits :
       /\ params[p][1] = SignatureKey
       /\ params' = [params EXCEPT ![p][2] =
                       ReplaceAt(params[p][2], i, FlipBit(params[p][2][i], k))]
  /\ u' = [RawQuery |-> WriteQuery(params')]
  /\ tampered' = "signature"
  /\ accepted' = {retQuery[1].fn}
  /\ retQuery' = <<>>
  /\ retFirst' = <<>>
  /\ UNCHANGED <<boundary, app, webhookVars, oauthVars>>

\* It is sent again with one bit of one byte of a signed parameter's name
\* (f = 1) or value (f = 2) inverted.
ResendWithParamByteChanged ==
  /\ MayResendQuery
  /\ \E p \in 1..Len(params), f \in 1..2, k \in Bits :
       /\ params[p][1] # SignatureKey
       /\ params' = [params EXCEPT ![p][f] = ReplaceAt(params[p][f], 1, FlipBit(params[p][f][1], k))]
  /\ u' = [RawQuery |-> WriteQuery(params')]
  /\ tampered' = "message"
  /\ accepted' = {retQuery[1].fn}
  /\ retQuery' = <<>>
  /\ retFirst' = <<>>
  /\ UNCHANGED <<boundary, app, webhookVars, oauthVars>>

NextQuery ==
  \/ CallVerifyAuthorizationURL
  \/ CallVerifySignature
  \/ ReorderQuery
  \/ ResendWithSignatureByteChanged
  \/ ResendWithParamByteChanged

SpecQuery == (InitCallback \/ InitProxy) /\ [][NextQuery]_vars

\* ------------------------------------------------------------------ OAuth

\* "client_id", "redirect_uri", "scope", "state"
KeyClientId == <<99, 108, 105, 101, 110, 116, 95, 105, 100>>
KeyRedirectUri == <<114, 101, 100, 105, 114, 101, 99, 116, 95, 117, 114, 105>>
KeyScope == <<115, 99, 111, 112, 101>>
KeyState == <<115, 116, 97, 116, 101>>

\* "https", ".myshopify.com", "/admin/oauth/authorize"
SchemeHttps == <<104, 116, 116, 112, 115>>
ShopifyDomain == <<46, 109, 121, 115, 104, 111, 112, 105, 102, 121, 46, 99, 111, 109>>
AuthorizePath == <<47, 97, 100, 109, 105, 110, 47, 111, 97, 117, 116, 104, 47, 97, 117, 116, 104, 111, 114, 105, 122, 101>>

\* ShopBaseUrl(shopName): "https://" + shopName + ".myshopify.com".
ShopBaseUrl(shopName) == SchemeHttps \o <<58, 47, 47>> \o shopName \o ShopifyDomain

\* url.Parse of an absolute URL "scheme://host[/path][?query]".
UrlParse(raw) ==
  LET scheme == SubSeq(raw, 1, IndexByte(raw, 58) - 1)
      rest   == Cut(SubSeq(raw, IndexByte(raw, 58) + 3, Len(raw)), 63)
      host   == Cut(rest.before, 47)
  IN  [Scheme   |-> scheme,
       Host     |-> host.before,
       Path     |-> IF IndexByte(rest.before, 47) = 0 THEN <<>> ELSE <<47>> \o host.after,
       RawQuery |-> rest.after]

\* v.Set(key, value)
Set(v, key, value) ==
  [k \in DOMAIN v \cup {key} |-> IF k = key THEN <<value>> ELSE v[k]]

\* An authorize URL whose query string is written without escaping.
AuthorizeUrlUnescaped(a, shopName, state) ==
  [Scheme   |-> SchemeHttps,
   Host     |-> shopName \o ShopifyDomain,
   Path     |-> AuthorizePath,
   RawQuery |-> KeyClientId \o <<61>> \o a.ApiKey \o <<38>>
                \o KeyRedirectUri \o <<61>> \o a.RedirectUrl \o <<38>>
                \o KeyScope \o <<61>> \o a.Scope \o <<38>>
                \o KeyState \o <<61>> \o state]

\* AuthorizeUrl(shopName, state): the URL whose String() it returns, as its
\* scheme, host, path and query string.
AuthorizeUrl(a, shopName, state) ==
  LET shopUrl == UrlParse(ShopBaseUrl(shopName))
      query   == Set(Set(Set(Set(Query(shopUrl), KeyClientId, a.ApiKey),
                             KeyRedirectUri, a.RedirectUrl),
                         KeyScope, a.Scope),
                     KeyState, state)
  IN  [shopUrl EXCEPT !.Path = AuthorizePath, !.RawQuery = Encode(query)]

\* NewClient(app, shopName, token): a client for one shop.
NewClient(a, shopName, token) == [shop |-> shopName, token |-> token]

\* client.NewRequest(method, relPath, body, options): a request to the
\* client's shop, or an error when it cannot be built.
NewRequest(client, method, relPath, body, fails) ==
  IF fails THEN [req |-> <<>>, err |-> "request error"]
  ELSE [req |-> <<[shop |-> client.shop, method |-> method, path |-> relPath,
                   body |-> body]>>,
        err |-> Nil]

\* &Token{}
EmptyToken == [AccessToken |-> <<>>, Scope |-> <<>>]

\* client.Do(req, token): sends the request once and decodes the response into
\* token, or fails in the transport or the decoding.
Do(client, req, response) ==
  [wire  |-> <<req>>,
   err   |-> IF response.kind = "ok" THEN Nil ELSE response.kind,
   token |-> IF response.kind = "ok"
             THEN [AccessToken |-> response.AccessToken, Scope |-> response.Scope]
             ELSE EmptyToken]

\* An exchange that hands back the token struct even when Do failed.
GetAccessTokenKeepsToken(a, shopName, code, env) ==
  LET data   == [ClientId |-> a.ApiKey, ClientSecret |-> a.ApiSecret, Code |-> code]
      client == IF a.Client = <<>> THEN NewClient(a, shopName, <<>>) ELSE a.Client[1]
      built  == NewRequest(client, "POST", accessTokenRelPath, data, env.newRequestFails)
      done   == Do(client, built.req[1], env.response)
  IN  IF built.err # Nil THEN [token |-> <<>>, err |-> built.err, wire |-> <<>>]
      ELSE [token |-> <<done.token>>, err |-> done.err, wire |-> done.wire]

\* GetAccessToken(shopName, code): its two results, and the requests it sent.
\* env: whether NewRequest fails, and how the network answers.
GetAccessToken(a, shopName, code, env) ==
  LET data   == [ClientId |-> a.ApiKey, ClientSecret |-> a.ApiSecret, Code |-> code]
      client == IF a.Client = <<>> THEN NewClient(a, shopName, <<>>) ELSE a.Client[1]
      built  == NewRequest(client, "POST", accessTokenRelPath, data, env.newRequestFails)
      done   == Do(client, built.req[1], env.response)
  IN  IF built.err # Nil THEN [token |-> <<>>, err |-> built.err, wire |-> <<>>]
      ELSE IF done.err # Nil THEN [token |-> <<>>, err |-> done.err, wire |-> done.wire]
      ELSE [token |-> <<done.token>>, err |-> Nil, wire |-> done.wire]

\* ---------------------------------------------------------- OAuth boundary

\* Shop names "a", "b"; authorization codes "c", "d".
Shops == {<<97>>, <<98>>}
Codes == {<<99>>, <<100>>}

\* ApiKey "", "k1"; RedirectUrl "", "/?&"; Scope "", "r +"; state "", "x", "%=".
ApiKeys == {<<>>, <<107, 49>>}
RedirectUrls == {<<>>, <<47, 63, 38>>}
Scopes == {<<>>, <<114, 32, 43>>}
States == {<<>>, <<120>>, <<37, 61>>}

\* How the network may answer the exchange: a transport error, a body that
\* does not decode, or a token "t" or "" with scope "r" or "".
Responses ==
  {[kind |-> k, AccessToken |-> <<>>, Scope |-> <<>>] :
     k \in {"transport error", "decode error"}}
  \cup {[kind |-> "ok", AccessToken |-> t, Scope |-> sc] : t \in {<<>>, <<116>>}, sc \in {<<114>>}}

InitOAuth ==
  /\ boundary = "oauth"
  /\ IdleWebhook
  /\ IdleQuery
  /\ IdleOAuth
  /\ tampered = "none"
  /\ accepted = {}
  /\ \E key \in ApiKeys, secret \in AppSecrets, redirect \in RedirectUrls, scope \in Scopes,
        client \in {<<>>} \cup {<<NewClient(NoApp, shop, <<>>)>> : shop \in Shops} :
       app = [ApiKey |-> key, ApiSecret |-> secret, RedirectUrl |-> redirect,
              Scope |-> scope, Client |-> client]

\* The application calls app.AuthorizeUrl(shopName, state).
CallAuthorizeUrl ==
  /\ boundary = "oauth"
  /\ \E shopName \in Shops, state \in States :
       retAuthorize' = <<[url |-> AuthorizeUrl(app, shopName, state),
                          shopName |-> shopName, state |-> state]>>
  /\ UNCHANGED <<boundary, app, tampered, accepted, wire, retToken, webhookVars, queryVars>>

\* The application calls app.GetAccessToken(shopName, code).
CallGetAccessToken ==
  /\ boundary = "oauth"
  /\ \E shopName \in Shops, code \in Codes, fails \in BOOLEAN, response \in Responses :
       LET env == [newRequestFails |-> fails, response |-> response]
           r   == GetAccessToken(app, shopName, code, env)
       IN  /\ wire' = r.wire
           /\ retToken' = <<[token |-> r.token, err |-> r.err, shopName |-> shopName,
                             code |-> code, env |-> env]>>
  /\ UNCHANGED <<boundary, app, tampered, accepted, retAuthorize, webhookVars, queryVars>>

NextOAuth ==
  \/ CallAuthorizeUrl
  \/ CallGetAccessToken

SpecOAuth == InitOAuth /\ [][NextOAuth]_vars

\* ------------------------------------------------------------ the package

Init == InitWebhook \/ InitCallback \/ InitProxy \/ InitOAuth

Next == NextWebhook \/ NextQuery \/ NextOAuth

Spec == Init /\ [][Next]_vars

\* ------------------------------------------------------ claims: webhooks

\* C1: after a call of either webhook verifier has returned, on whatever exit
\* path, every read of the request body by the handler behind it, the first
\* and each later one, obtains exactly the bytes of the body as delivered.
C1_BodyReplay ==
  handlerRead # <<>> => handlerRead[1].data = sent.buf

\* Which of the six checks of the verbose verifier an error belongs to (0: nil).
FailedCheck(err) ==
  IF err = Nil THEN 0
  ELSE IF err = "ApiSecret is empty" THEN 1
  ELSE IF err = "header not set" THEN 2
  ELSE IF err \in {"CorruptInputError", "received HMAC is not of length 32"} THEN 3
  ELSE IF err = "read error" THEN 4
  ELSE IF err = "request body is empty" THEN 5
  ELSE IF err = "expected hash does not equal" THEN 6
  ELSE 7

\* Whether header text h is the base64 encoding of exactly DigestSize bytes.
DecodesToDigest(h) ==
  Base64DecodeString(h).err = Nil /\ Len(Base64DecodeString(h).bytes) = DigestSize

\* The first of the six preconditions, in their documented order, that a call
\* with this secret on this request fails (0: none).
FirstFailure(secret, req) ==
  IF secret = <<>> THEN 1
  ELSE IF req.Header = <<>> \/ req.Header[1] = <<>> THEN 2
  ELSE IF ~DecodesToDigest(req.Header[1]) THEN 3
  ELSE IF req.Body.err THEN 4
  ELSE IF req.Body.buf = <<>> THEN 5
  ELSE IF Base64DecodeString(req.Header[1]).bytes # HmacSha256(secret, req.Body.buf) THEN 6
  ELSE 0

\* C2: the verbose verifier returns the error of the first precondition that
\* fails, in the order secret, header present, header decodes to 32 bytes, body
\* read, body non-empty, digests equal; a failure is (false, error) and
\* success is (true, nil).
C2_VerboseFirstFailure ==
  retVerbose # <<>> =>
    /\ FailedCheck(retVerbose[1].err) = FirstFailure(app.ApiSecret, retVerbose[1].entry)
    /\ retVerbose[1].ok <=> retVerbose[1].err = Nil

\* C2 witness: a header decoding to 31 bytes, with the right secret and a
\* readable body, was reported as malformed.
C2_Witness ==
  /\ retVerbose # <<>>
  /\ retVerbose[1].err = "received HMAC is not of length 32"
  /\ Len(Base64DecodeString(retVerbose[1].entry.Header[1]).bytes) = DigestSize - 1
  /\ ~retVerbose[1].entry.Body.err

\* C3: VerifyWebhookRequest returns true when the header is the base64 text of
\* the HMAC of the body under the app's secret, false when it is the one under
\* another secret, and false when the header is absent or of another length.
C3_SilentRoundTrip ==
  retWebhook # <<>> =>
    LET e == retWebhook[1].entry
        h == IF e.Header = <<>> THEN <<>> ELSE e.Header[1]
    IN  /\ (e.Header # <<>> /\ h = WebhookSignature(app.ApiSecret, e.Body.buf))
             => retWebhook[1].ok
        /\ \A s2 \in Secrets \ {app.ApiSecret} :
             (e.Header # <<>> /\ h = WebhookSignature(s2, e.Body.buf)) => ~retWebhook[1].ok
        /\ (e.Header = <<>> \/ Len(h) # Len(WebhookSignature(app.ApiSecret, e.Body.buf)))
             => ~retWebhook[1].ok

\* C3 witness: a delivery signed with the app's non-empty secret was accepted.
C3_Witness ==
  /\ retWebhook # <<>>
  /\ retWebhook[1].ok
  /\ app.ApiSecret # <<>>
  /\ retWebhook[1].entry.Body.buf # <<>>
  /\ tampered = "none"

\* C10: on one and the same request with a readable, non-empty body, under a
\* non-empty secret, VerifyWebhookRequest returns true exactly when
\* VerifyWebhookRequestVerbose returns (true, nil).
C10_VariantsAgree ==
  ( /\ retWebhook # <<>> /\ retVerbose # <<>>
    /\ retWebhook[1].entry = retVerbose[1].entry
    /\ ~retWebhook[1].entry.Body.err
    /\ retWebhook[1].entry.Body.buf # <<>>
    /\ app.ApiSecret # <<>> )
  => (retWebhook[1].ok <=> (retVerbose[1].ok /\ retVerbose[1].err = Nil))

\* ------------------------------------------------- claims: query verifiers

\* Whether s is a valid hex string: an even number of hex digits.
IsHexString(s) == Len(s) % 2 = 0 /\ \A i \in 1..Len(s) : FromHexChar(s[i]) < 16

\* C5: when the signature handed to VerifyMessage (the hmac parameter of
\* VerifyAuthorizationURL) is not a valid hex string, the verifier returns
\* false.
C5_DecodeFailureFails ==
  (retQuery # <<>> /\ retQuery[1].fn = "VerifyAuthorizationURL"
     /\ ~IsHexString(retQuery[1].mac))
  => ~retQuery[1].ok

\* How often x occurs in the sequence ps.
Count(ps, x) == Cardinality({i \in 1..Len(ps) : ps[i] = x})

\* Two parameter lists that hold the same parameters, each as often.
SameParameters(ps, qs) ==
  /\ Len(ps) = Len(qs)
  /\ \A i \in 1..Len(ps) : Count(ps, ps[i]) = Count(qs, ps[i])

\* C6: two URLs that carry the same multiset of key/value parameters, in any
\* two orders, give the verifier the same signing input and the same result.
C6_OrderIndependent ==
  (retFirst # <<>> /\ retQuery # <<>>
     /\ SameParameters(retFirst[1].params, retQuery[1].params))
  => /\ retFirst[1].message = retQuery[1].message
     /\ retFirst[1].ok = retQuery[1].ok

\* C6 as amended: the same, for two orders that keep the values of every
\* single key in their order.
C6_OrderIndependentAcrossKeys ==
  (retFirst # <<>> /\ retQuery # <<>>
     /\ SameParameters(retFirst[1].params, retQuery[1].params)
     /\ ValuesOf(retFirst[1].params) = ValuesOf(retQuery[1].params))
  => /\ retFirst[1].message = retQuery[1].message
     /\ retFirst[1].ok = retQuery[1].ok

\* C6 witness: a proxy request with two keys besides the signature was
\* accepted in two different orders of its parameters.
C6_Witness ==
  /\ boundary = "proxy"
  /\ retFirst # <<>> /\ retQuery # <<>>
  /\ retFirst[1].params # retQuery[1].params
  /\ ValuesOf(retFirst[1].params) = ValuesOf(retQuery[1].params)
  /\ Cardinality(DOMAIN ValuesOf(retQuery[1].params)) = 3
  /\ retFirst[1].ok /\ retQuery[1].ok

\* ---------------------------------------------------------- claims: OAuth

\* C7: GetAccessToken returns a token or an error and never both or neither:
\* (nil, error) without any request when the request cannot be built, (nil,
\* error) when the transport or the decoding fails, else the decoded token and
\* nil; it sends at most one request.
C7_TokenOrError ==
  retToken # <<>> =>
    LET r == retToken[1]
    IN  /\ (r.token = <<>>) # (r.err = Nil)
        /\ Len(wire) <= 1
        /\ r.env.newRequestFails => r.token = <<>> /\ wire = <<>>
        /\ (~r.env.newRequestFails /\ r.env.response.kind # "ok") => r.token = <<>>
        /\ (~r.env.newRequestFails /\ r.env.response.kind = "ok")
             => r.token = <<[AccessToken |-> r.env.response.AccessToken,
                             Scope |-> r.env.response.Scope]>>

\* C7 witness: an exchange whose one request failed in the transport returned
\* no token and the error.
C7_Witness ==
  /\ retToken # <<>>
  /\ retToken[1].env.response.kind = "transport error"
  /\ ~retToken[1].env.newRequestFails
  /\ Len(wire) = 1
  /\ retToken[1].err = "transport error"

\* The query of an authorize URL the claim describes: the four keys, once each.
FourKeys(a, state) ==
  [k \in {KeyClientId, KeyRedirectUri, KeyScope, KeyState} |->
     IF k = KeyClientId THEN <<a.ApiKey>>
     ELSE IF k = KeyRedirectUri THEN <<a.RedirectUrl>>
     ELSE IF k = KeyScope THEN <<a.Scope>>
     ELSE <<state>>]

\* C8: AuthorizeUrl returns a URL on the shop's base domain with the path
\* /admin/oauth/authorize whose query string parses to exactly the keys
\* client_id, redirect_uri, scope and state, once each, with the app's API
\* key, redirect URL and scope and the caller's state; nothing is sent.
C8_AuthorizeUrl ==
  /\ retAuthorize # <<>> =>
       LET r == retAuthorize[1]
       IN  /\ r.url.Scheme = SchemeHttps
           /\ r.url.Host = r.shopName \o ShopifyDomain
           /\ r.url.Path = AuthorizePath
           /\ Query(r.url) = FourKeys(app, r.state)
  /\ retToken = <<>> => wire = <<>>

\* C8 witness: a URL was built for a state and a redirect URL that hold bytes
\* the query encoding escapes.
C8_Witness ==
  /\ retAuthorize # <<>>
  /\ retAuthorize[1].state = <<37, 61>>
  /\ app.RedirectUrl # <<>>
  /\ app.Scope # <<>>
  /\ retToken = <<>>

\* C9: every request GetAccessToken sends is a POST of admin/oauth/access_token
\* to the shop named in the call, whether or not the app holds a client, and
\* carries the app's key and secret and the code of the call.
C9_ExchangeAtNamedShop ==
  retToken # <<>> =>
    \A i \in 1..Len(wire) :
      /\ wire[i].shop = retToken[1].shopName
      /\ wire[i].method = "POST"
      /\ wire[i].path = accessTokenRelPath
      /\ wire[i].body = [ClientId |-> app.ApiKey, ClientSecret |-> app.ApiSecret,
                         Code |-> retToken[1].code]

\* ------------------------------------------------------ claims: tampering

\* C4: once a verifier has returned true on a message, the same message with
\* one byte of its signature text, or of what is signed, replaced by another
\* makes that verifier return false.
C4_NoPartialMatch ==
  tampered # "none" =>
    /\ ("VerifyWebhookRequest" \in accepted /\ retWebhook # <<>>) => ~retWebhook[1].ok
    /\ ("VerifyWebhookRequestVerbose" \in accepted /\ retVerbose # <<>>) => ~retVerbose[1].ok
    /\ (retQuery # <<>> /\ retQuery[1].fn \in accepted) => ~retQuery[1].ok
====
